---- MODULE Spec2Model ----
(***************************************************************************)
(* PLUTO loaders of lotfinderpro: the paginated API loader                 *)
(* (old_scripts/pluto_loader.py), the chunked CSV loader                   *)
(* (old_scripts/pluto_local_loader.py) and the Supabase chunk uploader     *)
(* (pluto_supabase_loader_added_features.py), run against one properties   *)
(* table and one system_settings row (the watermark last_pluto_update).    *)
(* One behaviour is one run of one of the three scripts.                   *)
(***************************************************************************)
EXTENDS Integers, Sequences, FiniteSets, TLC

\* ------------------------------------------------------------------------
\* Program constants (scaled down where the source value is large)
\* ------------------------------------------------------------------------

\* pluto_loader.py BATCH_SIZE = 500, scaled to 2 records per page
BATCH_SIZE == 2
\* pluto_loader.py REQUEST_DELAY = 1 second
REQUEST_DELAY == 1
\* pluto_local_loader.py CHUNK_SIZE = 1000, scaled to 2 rows per chunk
CHUNK_SIZE == 2
\* datetime.fromtimestamp(0)
EPOCH == 0
\* pluto_loader.py BOROUGH_CODES has 5 entries, which a run without --borough
\* iterates; scaled to the first 2
NumBoroughs == 2
\* pluto_sample_loader.py: the shares of target_size of the four priority
\* quotas, in hundredths (0.3, 0.15, 0.1, 0.1)
MANHATTAN_PCT == 30
VACANT_PCT == 15
HIGH_VALUE_PCT == 10
DEV_POTENTIAL_PCT == 10
\* the boroughs of the stratified fill of the remaining target
FallbackBoroughs == <<"BK", "QN", "BX", "SI">>

\* ------------------------------------------------------------------------
\* Bounds of the model
\* ------------------------------------------------------------------------

\* pages (chunks) a source delivers per partition (file) before it is exhausted
MaxPages == 2
\* rows of the dataframe handed to upsert_chunks
MaxRows == 3
\* largest --chunk_size given to upsert_chunks
MaxChunkSize == 2
\* rows of the frame handed to create_strategic_sample
MaxSampleRows == 4
\* largest target_size handed to create_strategic_sample
MaxTarget == 10
\* the time up to which the incremental runs are followed
MaxClock == 9
\* incremental runs followed one after the other
MaxRuns == 2
\* records of one borough the source holds
MaxSource == 4

\* ------------------------------------------------------------------------
\* Values
\* ------------------------------------------------------------------------

NoField == "<absent>"

BoroughOrder == <<"1", "2", "3", "4", "5">>

BOROUGH_CODES ==
  [c \in {"1", "2", "3", "4", "5"} |->
     CASE c = "1" -> "Manhattan"
       [] c = "2" -> "Bronx"
       [] c = "3" -> "Brooklyn"
       [] c = "4" -> "Queens"
       [] c = "5" -> "Staten Island"]

Boroughs == {BoroughOrder[i] : i \in 1..NumBoroughs}

\* raw key cells a source can deliver: field absent, empty, not a number, numbers
RawKeys == {NoField, "", "abc", "1", "2"}
Keys == {0, 1, 2}

\* int(text) and pd.to_numeric(text): the texts that denote a number, and the number
Parsable(s) == s \in {"0", "1", "2", "1925", "5000"}
ParseInt(s) ==
  CASE s = "0" -> 0
    [] s = "1" -> 1
    [] s = "2" -> 2
    [] s = "1925" -> 1925
    [] s = "5000" -> 5000

\* datetime.isoformat() / datetime.fromisoformat(): ISO-8601 text of a timestamp
IsoFormat(t) == <<"iso", t>>
FromIsoFormat(s) == s[2]

\* bounded sequences over S
SeqUpTo(S, n) == UNION {[1..k -> S] : k \in 0..n}

\* ------------------------------------------------------------------------
\* Normalization
\* ------------------------------------------------------------------------

\* records the remote source returns for a request scoped to borough code c
ApiRecords(c) == [bbl : RawKeys, borough : {c}]

\* record.get(field): NoField when the record has no such field
Get(record, field) ==
  IF field \in DOMAIN record THEN record[field] ELSE NoField

\* record.get(field, '0') or '0'
GetOrZero(record, field) ==
  IF Get(record, field) \in {NoField, ""} THEN "0" ELSE Get(record, field)

\* the building classes of the records, and str.startswith('V') on them
BldgClasses == {"V0", "V1", "v1", "R4"}
StartsWithV(x) == x \in {"V0", "V1"}

\* variant: the building area is not looked at
get_built_statusNoArea(record) ==
  IF StartsWithV(Get(record, "bldgclass")) THEN <<"vacant">>
  ELSE IF ~Parsable(GetOrZero(record, "yearbuilt")) THEN <<>>
  ELSE IF ParseInt(GetOrZero(record, "yearbuilt")) = 0 THEN <<"vacant">>
  ELSE <<"built">>

\* get_built_status of pluto_loader.py: <<>> when int() raises, <<status>>
\* otherwise; the conditions are tried in order, so a later cell is not parsed
\* when an earlier condition holds
get_built_status(record) ==
  IF StartsWithV(Get(record, "bldgclass")) THEN <<"vacant">>
  ELSE IF ~Parsable(GetOrZero(record, "yearbuilt")) THEN <<>>
  ELSE IF ParseInt(GetOrZero(record, "yearbuilt")) = 0 THEN <<"vacant">>
  ELSE IF ~Parsable(GetOrZero(record, "bldgarea")) THEN <<>>
  ELSE IF ParseInt(GetOrZero(record, "bldgarea")) = 0 THEN <<"vacant">>
  ELSE <<"built">>

\* safe_int / safe_float: the default 0 for a missing, empty or unparsable value
safe_int(value) ==
  IF value \in {NoField, ""} \/ ~Parsable(value) THEN 0 ELSE ParseInt(value)

\* transform_record: <<>> stands for None (the record is dropped by the caller),
\* <<r>> for the transformed record r.  record.get('bbl', '0') or '0' turns an
\* absent or empty key into '0'; int() of any other non-number raises, here and
\* in get_built_status, and the except clause returns None.  block (and lot) are
\* read the same way; an absent borough becomes ''.
transform_record(record) ==
  LET text == GetOrZero(record, "bbl")
      block == GetOrZero(record, "block")
      code == IF Get(record, "borough") = NoField THEN "" ELSE record.borough
      built_status == get_built_status(record)
  IN IF ~Parsable(text) \/ ~Parsable(block) \/ built_status = <<>>
       THEN <<>>
       ELSE <<[bbl |-> ParseInt(text),
               borough |-> IF code \in DOMAIN BOROUGH_CODES
                             THEN BOROUGH_CODES[code]
                             ELSE code,
               block |-> ParseInt(block),
               bldgclass |-> Get(record, "bldgclass"),
               landuse |-> Get(record, "landuse"),
               bldgarea |-> safe_int(Get(record, "bldgarea")),
               yearbuilt |-> safe_int(Get(record, "yearbuilt")),
               built_status |-> built_status[1]]>>

\* a key cell that is absent, empty or not a number
KeyUnusable(cell) == cell = NoField \/ cell = "" \/ ~Parsable(cell)

\* some record of the page has no usable key and still yields a record
DefaultedIn(data) ==
  \E n \in DOMAIN data :
    KeyUnusable(data[n].bbl) /\ transform_record(data[n]) # <<>>

\* the loop of process_borough that keeps the records transform_record accepted
RECURSIVE TransformRecords(_)
TransformRecords(data) ==
  IF data = <<>> THEN <<>>
  ELSE transform_record(Head(data)) \o TransformRecords(Tail(data))

\* ------------------------------------------------------------------------
\* The properties table: table[k] is the sequence of rows whose bbl is k
\* (at most one under the unique constraint on bbl)
\* ------------------------------------------------------------------------

EmptyTable == [k \in Keys |-> <<>>]

\* the non-key columns of a record (borough stands for all of them)
RowOf(r) == [borough |-> r.borough]

\* variant: a plain INSERT, no conflict clause, on a table without the constraint
UpsertRowAppend(t, r) == [t EXCEPT ![r.bbl] = Append(t[r.bbl], RowOf(r))]

\* variant: ON CONFLICT (bbl) DO NOTHING, the row the table holds stays
UpsertRowDoNothing(t, r) ==
  IF t[r.bbl] = <<>> THEN [t EXCEPT ![r.bbl] = <<RowOf(r)>>] ELSE t

\* INSERT ... ON CONFLICT (bbl) DO UPDATE SET col = EXCLUDED.col, one record
UpsertRow(t, r) ==
  IF t[r.bbl] = <<>>
    THEN [t EXCEPT ![r.bbl] = <<RowOf(r)>>]
    ELSE [t EXCEPT ![r.bbl] = [i \in DOMAIN t[r.bbl] |-> RowOf(r)]]

\* execute_values over the whole batch, in batch order, then commit
RECURSIVE execute_values(_, _)
execute_values(t, values) ==
  IF values = <<>> THEN t
  ELSE execute_values(UpsertRow(t, Head(values)), Tail(values))

\* variant: no rollback, the first row of the failed batch stays
rollbackPartial(t, values) ==
  IF values = <<>> THEN t ELSE UpsertRow(t, Head(values))

\* conn.rollback() in the except clause: nothing of the batch stays
rollback(t, values) == t

\* variant: a connection in autocommit mode, the rows already executed stay
closeAutocommit(committed, open) == open

\* conn.close() in the finally clause of main: the open transaction (the rows
\* execute_values had sent, not yet committed) is discarded
close(committed, open) == committed

\* insert_properties / direct_insert_to_properties.  db is the outcome of the
\* statement and its commit: "ok" or "error".
insert_properties(t, properties, db) ==
  IF properties = <<>>
    THEN [table |-> t, inserted |-> 0, issued |-> FALSE, outcome |-> "empty"]
  ELSE IF db = "ok"
    THEN [table |-> execute_values(t, properties), inserted |-> Len(properties),
          issued |-> TRUE, outcome |-> "ok"]
    ELSE [table |-> rollback(t, properties), inserted |-> 0,
          issued |-> TRUE, outcome |-> "failed"]

RowCount(t) == LET RECURSIVE Sum(_)
                   Sum(S) == IF S = {} THEN 0
                             ELSE LET k == CHOOSE x \in S : TRUE
                                  IN Len(t[k]) + Sum(S \ {k})
               IN Sum(Keys)

\* ------------------------------------------------------------------------
\* The watermark row of system_settings: <<>> when no row has the key
\* last_pluto_update, <<text>> when the row holds text
\* ------------------------------------------------------------------------

\* variant: a failed read is not noticed, the stored value (or the epoch when
\* there is none) is returned whatever the read did
get_last_update_dateStored(stored, readOk) ==
  IF stored # <<>> THEN FromIsoFormat(stored[1]) ELSE EPOCH

\* get_last_update_date: readOk = FALSE is the except clause
get_last_update_date(stored, readOk) ==
  IF ~readOk THEN EPOCH
  ELSE IF stored # <<>> THEN FromIsoFormat(stored[1])
  ELSE EPOCH

\* the row after update_last_update_date at time now: writeOk = FALSE is the
\* except clause (rollback)
update_last_update_date(stored, now, writeOk) ==
  IF writeOk THEN <<IsoFormat(now)>> ELSE stored

\* ------------------------------------------------------------------------
\* State
\* ------------------------------------------------------------------------

VARIABLES
  loader,            \* the script that runs: "api", "csv" or "chunks"
  mode,              \* api: "full" or "incremental" (--incremental)
  specific_borough,  \* --borough: <<>> when not given, <<code>> when given
  clock,             \* datetime.now() when the run writes the watermark
  settings0,         \* the watermark row before the run
  csv_exists,        \* csv: the path given as csv_file exists
  truncate,          \* csv: truncate was requested (no --no-truncate)
  has_bbl,           \* csv: the header of the file has a bbl column
  df,                \* chunks: the dataframe handed to upsert_chunks
  chunk_size,        \* chunks: --chunk_size
  batch,             \* upsert: the batch that is upserted again and again
  batch2,            \* commute: the second batch (batch is the first)
  applied,           \* upsert: successful upserts of batch so far (counted to 2)
  onceTable,         \* upsert: the table after the first successful upsert
  target_size,       \* sample: the target size given to create_strategic_sample
  samples,           \* sample: the samples appended, in order: the quota and
                     \*   the positions (in df) of the rows it drew
  remaining_target,  \* sample: remaining_target when step 5 begins
  final_sample,      \* sample: the positions (in df) of the rows returned
  record,            \* normalize: the raw record (row) handed to a transform
  built_status,      \* normalize: <<>>, or <<status>> once get_built_status
                     \*   returned status for record
  transformed,       \* normalize: <<>> (nothing, None) or <<the record the
                     \*   transform produced>>
  pc,                \* position of the run
  table,             \* the properties table
  settings,          \* the last_pluto_update row of system_settings
  todo,              \* api: borough codes still to be processed
  where_clause,      \* api: the $where filter of the current process_borough
  last_update,       \* api: the watermark incremental_load read at its start
  offset,            \* api: offset of the next page
  total_properties,  \* records inserted by the run so far (total_properties of
                     \* the caller plus total_processed of the borough in progress)
  pagesLeft,         \* pages (chunks) the current source still holds
  i,                 \* chunks: index of the next chunk
  lastReq,           \* history: <<>> or <<the last request issued, with the
                     \*   number of records it returned>>
  fetchFailed,       \* history: a page fetch of this run failed
  delayed,           \* history: time.sleep(REQUEST_DELAY) ran after the last request
  lastRead,          \* history: "none", or how the last read of the watermark
                     \*   went: "ok" or "failed"
  truncCount,        \* history: TRUNCATE statements issued
  upserted,          \* history: a batch upsert was submitted to the loader
  lastInsert,        \* history: "none", or how the last batch went:
                     \*   "empty" (nothing to insert), "ok", "failed" (the
                     \*   statement failed and was rolled back), "raised"
                     \*   (an exception left the insert function) or
                     \*   "interrupted" (KeyboardInterrupt inside the statement)
  wmWrites,          \* history: writes of the watermark attempted
  wmFailed,          \* history: a write of the watermark failed
  reported,          \* <<>>, or <<n>> once the run printed n imported properties
  keyDefaulted,      \* history: a record without a usable key was normalized
  submitted          \* chunks history: <<>>, or <<the rows of the last upsert
                     \*   statement upsert_chunks submitted>>

\* the inputs of the run, fixed by Init
args == <<loader, mode, specific_borough, clock, settings0, csv_exists,
          truncate, has_bbl, df, chunk_size, batch, batch2, applied,
          onceTable,
          target_size, samples, remaining_target, final_sample,
          record, built_status, transformed>>
\* the state of process_borough
apiVars == <<todo, where_clause, last_update, offset, lastReq, fetchFailed,
            delayed, lastRead>>

\* the state of the end of the run
endVars == <<wmWrites, wmFailed, reported>>

vars == <<args, pc, table, settings, apiVars, total_properties, pagesLeft, i,
          truncCount, upserted, lastInsert, endVars, keyDefaulted, submitted>>

\* a table left by earlier runs
PriorTable ==
  [k \in Keys |->
     IF k = 1 THEN <<[borough |-> "Manhattan"]>>
     ELSE IF k = 2 THEN <<[borough |-> "Bronx"]>>
     ELSE <<>>]

\* the watermark row before the run: absent, or written by an earlier run
StoredValues == {<<>>, <<IsoFormat(EPOCH + 1)>>}

InitCommon ==
  /\ table \in {EmptyTable, PriorTable}
  /\ batch = <<>> /\ batch2 = <<>> /\ applied = 0 /\ onceTable = EmptyTable
  /\ samples = <<>> /\ remaining_target = 0 /\ final_sample = {}
  /\ built_status = <<>> /\ transformed = <<>>
  /\ settings \in StoredValues
  /\ settings0 = settings
  /\ clock = EPOCH + 2
  /\ todo = <<>>
  /\ where_clause = [borough |-> "", since |-> <<>>]
  /\ last_update = EPOCH
  /\ offset = 0
  /\ total_properties = 0
  /\ pagesLeft = MaxPages
  /\ i = 0
  /\ lastReq = <<>>
  /\ fetchFailed = FALSE
  /\ delayed = FALSE
  /\ lastRead = "none"
  /\ truncCount = 0
  /\ upserted = FALSE
  /\ lastInsert = "none"
  /\ wmWrites = 0
  /\ wmFailed = FALSE
  /\ reported = <<>>
  /\ keyDefaulted = FALSE /\ submitted = <<>>

InitApi ==
  /\ loader = "api"
  /\ pc = "main"
  /\ mode \in {"full", "incremental"}
  /\ specific_borough \in {<<>>} \cup {<<c>> : c \in Boroughs}
  /\ csv_exists = TRUE /\ truncate = FALSE /\ has_bbl = TRUE
  /\ df = <<>> /\ chunk_size = 1
  /\ target_size = 0 /\ record = <<>>
  /\ InitCommon

\* ------------------------------------------------------------------------
\* pluto_loader.py
\* ------------------------------------------------------------------------

\* the boroughs full_load / incremental_load hand to process_borough, in order
BoroughsOfRun ==
  IF specific_borough # <<>> THEN specific_borough
  ELSE SubSeq(BoroughOrder, 1, NumBoroughs)

\* truncate_properties_table: the table after TRUNCATE committed
truncate_properties_table(t) == EmptyTable

\* variant: full_load without the truncate
FullLoadStartNoTruncate ==
  /\ loader = "api" /\ pc = "main" /\ mode = "full"
  /\ pc' = "process_borough"
  /\ todo' = BoroughsOfRun
  /\ UNCHANGED <<args, table, settings, where_clause, last_update, offset,
                 lastReq, fetchFailed, delayed, lastRead, total_properties,
                 pagesLeft, i, truncCount, upserted, lastInsert, endVars,
                 keyDefaulted, submitted>>

\* full_load up to its first process_borough: truncate, sys.exit(1) when the
\* truncate fails
FullLoadStart ==
  /\ loader = "api" /\ pc = "main" /\ mode = "full"
  /\ truncCount' = truncCount + 1
  /\ \E truncOk \in BOOLEAN :
       IF truncOk
         THEN /\ table' = truncate_properties_table(table)
              /\ pc' = "process_borough"
              /\ todo' = BoroughsOfRun
         ELSE /\ table' = table
              /\ pc' = "exited"
              /\ todo' = todo
  /\ UNCHANGED <<args, settings, where_clause, last_update, offset, lastReq,
                 fetchFailed, delayed, lastRead, total_properties, pagesLeft, i,
                 upserted, lastInsert, endVars, keyDefaulted, submitted>>

\* incremental_load up to its first process_borough: read the watermark
IncrementalLoadStart ==
  /\ loader = "api" /\ pc = "main" /\ mode = "incremental"
  /\ \E readOk \in BOOLEAN :
       /\ last_update' = get_last_update_date(settings, readOk)
       /\ lastRead' = IF readOk THEN "ok" ELSE "failed"
  /\ pc' = "process_borough"
  /\ todo' = BoroughsOfRun
  /\ UNCHANGED <<args, table, settings, where_clause, offset, lastReq,
                 fetchFailed, delayed, total_properties, pagesLeft, i, truncCount,
                 upserted, lastInsert, endVars, keyDefaulted, submitted>>

\* the where clause process_borough builds; since is <<>> without the
\* last_status_date condition, <<text>> for last_status_date > 'text'
WhereClause(code, incremental, stored, readOk) ==
  [borough |-> code,
   since |-> IF incremental
               THEN <<IsoFormat(get_last_update_date(stored, readOk))>>
               ELSE <<>>]

\* change timestamps (last_status_date) the records of the source carry: all
\* lie after the epoch and not after the time of the run
Timestamps == {EPOCH + 1, EPOCH + 2}

\* the source's evaluation of the where clause on a record's last_status_date
Admits(where, ts) ==
  where.since = <<>> \/ ts > FromIsoFormat(where.since[1])

\* process_borough up to its while loop
ProcessBoroughBegin ==
  /\ loader = "api" /\ pc = "process_borough" /\ todo # <<>>
  /\ \E readOk \in BOOLEAN :
       /\ where_clause' =
            WhereClause(Head(todo), mode = "incremental", settings, readOk)
       /\ lastRead' = IF mode # "incremental" THEN lastRead
                      ELSE IF readOk THEN "ok" ELSE "failed"
  /\ todo' = Tail(todo)
  /\ offset' = 0
  /\ pagesLeft' = MaxPages
  /\ pc' = "loop"
  /\ UNCHANGED <<args, table, settings, last_update, lastReq, fetchFailed,
                 delayed, total_properties, i, truncCount, upserted, lastInsert,
                 endVars, keyDefaulted, submitted>>

\* what the HTTP GET can produce: a transport error or non-2xx status, or a
\* page of at most limit records; the last page a finite source holds is short
Responses(code, limit, left) ==
  {[status |-> "error", body |-> <<>>]} \cup
  {[status |-> "ok", body |-> b] :
     b \in SeqUpTo(ApiRecords(code), IF left > 1 THEN limit ELSE limit - 1)}

\* fetch_pluto_data: the except clause returns an empty list
fetch_pluto_data(response) ==
  IF response.status = "ok" THEN response.body ELSE <<>>

\* where the run goes when process_borough returns
AfterBorough == IF todo = <<>> THEN "finalize" ELSE "process_borough"

\* variant: the offset counts pages, not records
next_offsetByPage(off) == off + 1

\* offset += BATCH_SIZE
next_offset(off) == off + BATCH_SIZE

\* one iteration of the while loop of process_borough
LoopIteration ==
  /\ loader = "api" /\ pc = "loop"
  /\ \E response \in Responses(where_clause.borough, BATCH_SIZE, pagesLeft) :
     \E db \in {"ok", "error"} :
       LET data == fetch_pluto_data(response)
           transformed_records == TransformRecords(data)
           res == insert_properties(table, transformed_records, db)
       IN /\ lastReq' = <<[offset |-> offset, limit |-> BATCH_SIZE,
                           where |-> where_clause, returned |-> Len(data)]>>
          /\ fetchFailed' = (fetchFailed \/ response.status = "error")
          /\ pagesLeft' = pagesLeft - 1
          /\ keyDefaulted' = (keyDefaulted \/ DefaultedIn(data))
          /\ IF data = <<>>
               THEN /\ pc' = AfterBorough
                    /\ delayed' = FALSE
                    /\ UNCHANGED <<table, total_properties, offset, upserted,
                                   lastInsert>>
               ELSE /\ table' = res.table
                    /\ total_properties' = total_properties + res.inserted
                    /\ upserted' = (upserted \/ res.issued)
                    /\ lastInsert' = res.outcome
                    /\ IF Len(data) < BATCH_SIZE
                         THEN /\ pc' = AfterBorough
                              /\ delayed' = FALSE
                              /\ UNCHANGED offset
                         ELSE /\ offset' = next_offset(offset)
                              /\ delayed' = (REQUEST_DELAY > 0)
                              /\ UNCHANGED pc
  /\ UNCHANGED <<args, settings, todo, where_clause, last_update, lastRead, i,
                 truncCount, endVars, submitted>>

\* variant: the watermark is written only when the last batch did not fail
FinalizeUnlessFailed ==
  /\ loader = "api" /\ pc = "finalize"
  /\ IF lastInsert = "failed"
       THEN UNCHANGED <<wmWrites, wmFailed, settings>>
       ELSE /\ wmWrites' = wmWrites + 1
            /\ \E writeOk \in BOOLEAN :
                 /\ settings' = update_last_update_date(settings, clock, writeOk)
                 /\ wmFailed' = ~writeOk
  /\ reported' = <<total_properties>>
  /\ pc' = "done"
  /\ UNCHANGED <<args, table, apiVars, total_properties, pagesLeft, i,
                 truncCount, upserted, lastInsert, keyDefaulted, submitted>>

\* variant: a failed write of the watermark ends the process (sys.exit(1) in
\* the except clause), nothing is printed about the load
FinalizeFatal ==
  /\ loader = "api" /\ pc = "finalize"
  /\ wmWrites' = wmWrites + 1
  /\ \E writeOk \in BOOLEAN :
       /\ settings' = update_last_update_date(settings, clock, writeOk)
       /\ wmFailed' = ~writeOk
       /\ reported' = IF writeOk THEN <<total_properties>> ELSE <<>>
       /\ pc' = IF writeOk THEN "done" ELSE "exited"
  /\ UNCHANGED <<args, table, apiVars, total_properties, pagesLeft, i,
                 truncCount, upserted, lastInsert, keyDefaulted, submitted>>

\* the end of full_load / incremental_load and of main: update_last_update_date
\* (its except clause prints and rolls back), then the prints of the total
Finalize ==
  /\ loader = "api" /\ pc = "finalize"
  /\ wmWrites' = wmWrites + 1
  /\ \E writeOk \in BOOLEAN :
       /\ settings' = update_last_update_date(settings, clock, writeOk)
       /\ wmFailed' = ~writeOk
  /\ reported' = <<total_properties>>
  /\ pc' = "done"
  /\ UNCHANGED <<args, table, apiVars, total_properties, pagesLeft, i,
                 truncCount, upserted, lastInsert, keyDefaulted, submitted>>

\* ------------------------------------------------------------------------
\* pluto_local_loader.py
\* ------------------------------------------------------------------------

\* cells pandas reads from the borough column: a number, or a text
CsvBoroughCells == {[type |-> "int", text |-> "1"], [type |-> "str", text |-> "MN"]}
\* cells of the bbl column; without the column no row has the field
CsvKeyCells(hasBbl) == IF hasBbl THEN {"", "abc", "1", "2"} ELSE {NoField}
CsvRows(hasBbl) == [bbl : CsvKeyCells(hasBbl), borough : CsvBoroughCells]

InitCsv ==
  /\ loader = "csv"
  /\ pc = "main"
  /\ mode = "full"
  /\ specific_borough \in {<<>>, <<"1">>}
  /\ csv_exists \in BOOLEAN
  /\ truncate \in BOOLEAN
  /\ has_bbl \in BOOLEAN
  /\ df = <<>> /\ chunk_size = 1
  /\ target_size = 0 /\ record = <<>>
  /\ InitCommon

\* chunk[chunk['borough'] == specific_borough]: a cell equals the text of
\* --borough only when it is that text
RECURSIVE FilterBorough(_, _)
FilterBorough(chunk, code) ==
  IF chunk = <<>> THEN <<>>
  ELSE (IF Head(chunk).borough = [type |-> "str", text |-> code]
          THEN <<Head(chunk)>> ELSE <<>>) \o FilterBorough(Tail(chunk), code)

\* pd.to_numeric(column, errors='coerce').fillna(0) on one cell
to_numeric(cell) == IF Parsable(cell) THEN ParseInt(cell) ELSE 0

\* get_built_status of pluto_local_loader.py, on a row whose numeric columns
\* were coerced
get_built_status_local(row) ==
  IF StartsWithV(row.bldgclass) THEN "vacant"
  ELSE IF row.yearbuilt = 0 THEN "vacant"
  ELSE IF row.bldgarea = 0 THEN "vacant"
  ELSE "built"

\* transform_dataframe, row n of the chunk (n from 1): the borough code mapped to
\* its name when it is a code; bbl coerced to a number with 0 for what is not
\* one, or the row number when the file has no bbl column
TransformRow(row, n, hasBbl) ==
  LET numeric == [bldgarea |-> to_numeric(Get(row, "bldgarea")),
                  yearbuilt |-> to_numeric(Get(row, "yearbuilt")),
                  bldgclass |-> Get(row, "bldgclass")]
  IN [bbl |-> IF ~hasBbl THEN n ELSE to_numeric(row.bbl),
      borough |-> IF row.borough.text \in DOMAIN BOROUGH_CODES
                    THEN BOROUGH_CODES[row.borough.text]
                    ELSE row.borough.text,
      block |-> to_numeric(Get(row, "block")),
      bldgclass |-> Get(row, "bldgclass"),
      landuse |-> Get(row, "landuse"),
      bldgarea |-> numeric.bldgarea,
      yearbuilt |-> numeric.yearbuilt,
      built_status |-> get_built_status_local(numeric)]

transform_dataframe(chunk, hasBbl) ==
  [n \in DOMAIN chunk |-> TransformRow(chunk[n], n, hasBbl)]

\* variant: the table is truncated before the file is looked for
CsvStartTruncateFirst ==
  /\ loader = "csv" /\ pc = "main"
  /\ IF truncate
       THEN /\ truncCount' = truncCount + 1
            /\ \E truncOk \in BOOLEAN :
                 IF truncOk
                   THEN /\ table' = truncate_properties_table(table)
                        /\ pc' = IF csv_exists THEN "loop" ELSE "finalize"
                   ELSE table' = table /\ pc' = "exited"
       ELSE /\ pc' = IF csv_exists THEN "loop" ELSE "finalize"
            /\ UNCHANGED <<table, truncCount>>
  /\ UNCHANGED <<args, settings, apiVars, total_properties, pagesLeft, i,
                 upserted, lastInsert, endVars, keyDefaulted, submitted>>

\* process_csv_direct up to its loop over the chunks
CsvStart ==
  /\ loader = "csv" /\ pc = "main"
  /\ IF ~csv_exists
       THEN /\ pc' = "finalize"
            /\ UNCHANGED <<table, truncCount>>
       ELSE IF truncate
         THEN /\ truncCount' = truncCount + 1
              /\ \E truncOk \in BOOLEAN :
                   IF truncOk
                     THEN table' = truncate_properties_table(table) /\ pc' = "loop"
                     ELSE table' = table /\ pc' = "exited"
         ELSE /\ pc' = "loop"
              /\ UNCHANGED <<table, truncCount>>
  /\ UNCHANGED <<args, settings, apiVars, total_properties, pagesLeft, i,
                 upserted, lastInsert, endVars, keyDefaulted, submitted>>

\* one step of the loop over pd.read_csv(chunksize=CHUNK_SIZE): the end of the
\* file, or one chunk.  db = "query_error" is the column query of
\* direct_insert_to_properties raising: it stands before the try, so the
\* exception reaches the except clause of process_csv_direct, which returns 0.
CsvChunk ==
  /\ loader = "csv" /\ pc = "loop"
  /\ \/ /\ pc' = "finalize"
        /\ UNCHANGED <<table, total_properties, pagesLeft, upserted, lastInsert,
                       keyDefaulted>>
     \/ /\ pagesLeft > 0
        /\ \E n \in 1..CHUNK_SIZE :
           \E raw \in [1..n -> CsvRows(has_bbl)] :
           \E db \in {"ok", "error", "query_error"} :
             LET chunk == IF specific_borough # <<>>
                            THEN FilterBorough(raw, specific_borough[1])
                            ELSE raw
                 transformed_chunk == transform_dataframe(chunk, has_bbl)
                 res == insert_properties(table, transformed_chunk,
                                          IF db = "ok" THEN "ok" ELSE "error")
             IN /\ pagesLeft' = IF n < CHUNK_SIZE THEN 0 ELSE pagesLeft - 1
                /\ keyDefaulted' =
                     (keyDefaulted \/
                      \E m \in DOMAIN transformed_chunk : KeyUnusable(chunk[m].bbl))
                /\ IF chunk = <<>>
                     THEN UNCHANGED <<pc, table, total_properties, upserted,
                                      lastInsert>>
                   ELSE IF db = "query_error"
                     THEN /\ pc' = "finalize"
                          /\ total_properties' = 0
                          /\ lastInsert' = "raised"
                          /\ UNCHANGED <<table, upserted>>
                     ELSE /\ table' = res.table
                          /\ total_properties' = total_properties + res.inserted
                          /\ upserted' = (upserted \/ res.issued)
                          /\ lastInsert' = res.outcome
                          /\ UNCHANGED pc
  /\ UNCHANGED <<args, settings, apiVars, i, truncCount, endVars, submitted>>

\* main after process_csv_direct returned: the total is printed, then the
\* watermark is written; an exception here reaches the except clause of main,
\* which prints it, and the finally clause closes the connection
CsvFinalize ==
  /\ loader = "csv" /\ pc = "finalize"
  /\ reported' = <<total_properties>>
  /\ wmWrites' = wmWrites + 1
  /\ \E writeOk \in BOOLEAN :
       /\ settings' = update_last_update_date(settings, clock, writeOk)
       /\ wmFailed' = ~writeOk
  /\ pc' = "done"
  /\ UNCHANGED <<args, table, apiVars, total_properties, pagesLeft, i,
                 truncCount, upserted, lastInsert, keyDefaulted, submitted>>

\* ------------------------------------------------------------------------
\* pluto_supabase_loader_added_features.py
\* ------------------------------------------------------------------------

ChunkRows == [bbl : {1, 2}, borough : {"MN", "BX"}]

InitChunks ==
  /\ loader = "chunks"
  /\ pc = "main"
  /\ mode = "full"
  /\ specific_borough = <<>>
  /\ csv_exists = TRUE /\ truncate = FALSE /\ has_bbl = TRUE
  /\ df \in SeqUpTo(ChunkRows, MaxRows)
  /\ chunk_size \in 1..MaxChunkSize
  /\ target_size = 0 /\ record = <<>>
  /\ InitCommon

\* variant: the remainder of the division is forgotten
NumChunksFloor(total_rows, size) == total_rows \div size

\* num_chunks of upsert_chunks
NumChunks(total_rows, size) ==
  (total_rows \div size) + (IF total_rows % size # 0 THEN 1 ELSE 0)

\* df.iloc[start:end], start counted from 0
Iloc(d, start, end) ==
  LET hi == IF end < Len(d) THEN end ELSE Len(d)
  IN IF start >= hi THEN <<>> ELSE SubSeq(d, start + 1, hi)

HasDuplicateKeys(rows) ==
  \E m, n \in DOMAIN rows : m # n /\ rows[m].bbl = rows[n].bbl

\* main up to the loop of upsert_chunks
UpsertChunksStart ==
  /\ loader = "chunks" /\ pc = "main"
  /\ i' = 0
  /\ pc' = IF NumChunks(Len(df), chunk_size) = 0 THEN "done" ELSE "loop"
  /\ UNCHANGED <<args, table, settings, apiVars, total_properties, pagesLeft,
                 truncCount, upserted, lastInsert, endVars, keyDefaulted, submitted>>

\* one iteration of the loop of upsert_chunks: one upsert statement for the
\* chunk; execute() raising is not caught, so the exception ends the script.
\* A statement whose rows share a key cannot succeed.
UpsertChunk ==
  /\ loader = "chunks" /\ pc = "loop" /\ i < NumChunks(Len(df), chunk_size)
  /\ \E db \in {"ok", "error"} :
       LET start == i * chunk_size
           chunk == Iloc(df, start, start + chunk_size)
       IN /\ (db = "ok" => ~HasDuplicateKeys(chunk))
          /\ upserted' = TRUE
          /\ submitted' = <<chunk>>
          /\ IF db = "ok"
               THEN /\ table' = execute_values(table, chunk)
                    /\ lastInsert' = "ok"
                    /\ i' = i + 1
                    /\ pc' = IF i + 1 < NumChunks(Len(df), chunk_size)
                               THEN "loop" ELSE "done"
               ELSE /\ table' = rollback(table, chunk)
                    /\ lastInsert' = "failed"
                    /\ i' = i
                    /\ pc' = "crashed"
  /\ UNCHANGED <<args, settings, apiVars, total_properties, pagesLeft,
                 truncCount, endVars, keyDefaulted>>

\* ------------------------------------------------------------------------
\* The upsert statement on its own: one batch upserted repeatedly into a table
\* ------------------------------------------------------------------------

\* normalized records a batch can hold
NormalizedRecords == [bbl : Keys, borough : {"Manhattan", "Bronx", "MN"}]

\* tables that satisfy the unique constraint on bbl
Tables ==
  [Keys -> {<<>>} \cup {<<[borough |-> b]>> : b \in {"Manhattan", "Bronx", "MN"}}]

InitUpsert ==
  /\ loader = "upsert"
  /\ pc = "loop"
  /\ mode = "incremental"
  /\ specific_borough = <<>>
  /\ csv_exists = TRUE /\ truncate = FALSE /\ has_bbl = TRUE
  /\ df = <<>> /\ chunk_size = 1
  /\ table \in Tables
  /\ batch \in SeqUpTo(NormalizedRecords, BATCH_SIZE)
  /\ batch2 = <<>>
  /\ applied = 0 /\ onceTable = EmptyTable
  /\ target_size = 0 /\ samples = <<>> /\ remaining_target = 0
  /\ final_sample = {}
  /\ record = <<>> /\ built_status = <<>> /\ transformed = <<>>
  /\ settings = <<>> /\ settings0 = settings /\ clock = EPOCH + 2
  /\ todo = <<>> /\ where_clause = [borough |-> "", since |-> <<>>]
  /\ last_update = EPOCH /\ offset = 0 /\ total_properties = 0
  /\ pagesLeft = 0 /\ i = 0 /\ lastReq = <<>> /\ fetchFailed = FALSE
  /\ delayed = FALSE /\ lastRead = "none" /\ truncCount = 0 /\ upserted = FALSE
  /\ lastInsert = "none" /\ wmWrites = 0 /\ wmFailed = FALSE
  /\ reported = <<>> /\ keyDefaulted = FALSE /\ submitted = <<>>

\* insert_properties(conn, batch) once more
ApplyUpsert ==
  /\ loader = "upsert" /\ applied < 2
  /\ \E db \in {"ok", "error"} :
       LET res == insert_properties(table, batch, db)
       IN /\ table' = res.table
          /\ lastInsert' = res.outcome
          /\ upserted' = (upserted \/ res.issued)
          /\ total_properties' = total_properties + res.inserted
          /\ applied' = IF res.outcome = "failed" THEN applied ELSE applied + 1
          /\ onceTable' = IF res.outcome # "failed" /\ applied = 0
                            THEN res.table ELSE onceTable
  /\ UNCHANGED <<loader, mode, specific_borough, clock, settings0, csv_exists,
                 truncate, has_bbl, df, chunk_size, batch, batch2, target_size, samples,
                 remaining_target, final_sample, record, built_status,
                 transformed, pc, settings,
                 apiVars, pagesLeft, i, truncCount, endVars, keyDefaulted, submitted>>

NextUpsert == ApplyUpsert

SpecUpsert == InitUpsert /\ [][NextUpsert]_vars

\* ------------------------------------------------------------------------
\* Two batches upserted in both orders: table receives batch then batch2,
\* onceTable (a second copy of the same starting table) batch2 then batch
\* ------------------------------------------------------------------------

CommuteRecords == [bbl : {1, 2}, borough : {"Manhattan", "Bronx"}]

InitCommute ==
  /\ loader = "commute"
  /\ pc = "loop"
  /\ mode = "incremental"
  /\ specific_borough = <<>>
  /\ csv_exists = TRUE /\ truncate = FALSE /\ has_bbl = TRUE
  /\ df = <<>> /\ chunk_size = 1
  /\ table \in Tables
  /\ onceTable = table
  /\ batch \in SeqUpTo(CommuteRecords, BATCH_SIZE)
  /\ batch2 \in SeqUpTo(CommuteRecords, BATCH_SIZE)
  /\ applied = 0
  /\ target_size = 0 /\ samples = <<>> /\ remaining_target = 0
  /\ final_sample = {}
  /\ record = <<>> /\ built_status = <<>> /\ transformed = <<>>
  /\ settings = <<>> /\ settings0 = settings /\ clock = EPOCH + 2
  /\ todo = <<>> /\ where_clause = [borough |-> "", since |-> <<>>]
  /\ last_update = EPOCH /\ offset = 0 /\ total_properties = 0
  /\ pagesLeft = 0 /\ i = 0 /\ lastReq = <<>> /\ fetchFailed = FALSE
  /\ delayed = FALSE /\ lastRead = "none" /\ truncCount = 0 /\ upserted = FALSE
  /\ lastInsert = "none" /\ wmWrites = 0 /\ wmFailed = FALSE
  /\ reported = <<>> /\ keyDefaulted = FALSE /\ submitted = <<>>

\* insert_properties(conn, first) on table and insert_properties(conn, second)
\* on onceTable, both statements succeeding
UpsertPair(first, second) ==
  LET res == insert_properties(table, first, "ok")
      other == insert_properties(onceTable, second, "ok")
  IN /\ table' = res.table
     /\ onceTable' = other.table
     /\ lastInsert' = res.outcome
     /\ upserted' = (upserted \/ res.issued)
     /\ total_properties' = total_properties + res.inserted
     /\ applied' = applied + 1
     /\ UNCHANGED <<loader, mode, specific_borough, clock, settings0,
                    csv_exists, truncate, has_bbl, df, chunk_size, batch,
                    batch2, target_size, samples, remaining_target,
                    final_sample, record, built_status, transformed, pc,
                    settings, apiVars, pagesLeft, i, truncCount, endVars,
                    keyDefaulted, submitted>>

\* the first insert_properties call of either order
UpsertFirst == loader = "commute" /\ applied = 0 /\ UpsertPair(batch, batch2)

\* the second insert_properties call of either order
UpsertSecond == loader = "commute" /\ applied = 1 /\ UpsertPair(batch2, batch)

NextCommute == UpsertFirst \/ UpsertSecond

SpecCommute == InitCommute /\ [][NextCommute]_vars

\* ------------------------------------------------------------------------
\* pluto_sample_loader.py: create_strategic_sample
\* ------------------------------------------------------------------------

\* the rows a frame is drawn from: Manhattan, vacant (in and outside
\* Manhattan), highly assessed, under-built, and plain rows of two boroughs
SampleKinds ==
  << [borough |-> "MN", bldgclass |-> "R4", assesstot |-> 0, residfar |-> 0, builtfar |-> 0],
     [borough |-> "MN", bldgclass |-> "V0", assesstot |-> 0, residfar |-> 0, builtfar |-> 0],
     [borough |-> "BK", bldgclass |-> "V0", assesstot |-> 0, residfar |-> 0, builtfar |-> 0],
     [borough |-> "BK", bldgclass |-> "R4", assesstot |-> 1, residfar |-> 0, builtfar |-> 0],
     [borough |-> "QN", bldgclass |-> "R4", assesstot |-> 0, residfar |-> 1, builtfar |-> 0],
     [borough |-> "BK", bldgclass |-> "R4", assesstot |-> 0, residfar |-> 0, builtfar |-> 0],
     [borough |-> "QN", bldgclass |-> "R4", assesstot |-> 0, residfar |-> 0, builtfar |-> 0] >>

\* the keys (bbl) of the rows: two rows of a frame can carry the same key
SampleKeys == {1, 2}

\* row number j of the catalogue: each kind with each key
SampleRow(j) ==
  LET nk == Cardinality(SampleKeys)
  IN [bbl |-> ((j - 1) % nk) + 1] @@ SampleKinds[((j - 1) \div nk) + 1]

\* the frames handed to the sampler: no two rows equal (prepare_dataframe
\* calls df.drop_duplicates() first), rows in catalogue order (the sampler
\* does not depend on the order of the rows)
SampleFrames ==
  {[n \in DOMAIN f |-> SampleRow(f[n])] :
     f \in {g \in SeqUpTo(1..(Len(SampleKinds) * Cardinality(SampleKeys)),
                          MaxSampleRows) :
              \A a, b \in DOMAIN g : a < b => g[a] < g[b]}}

Min(a, b) == IF a < b THEN a ELSE b

\* variant: the quota is the whole target
IntOfShareNoCap(target, pct) == target

\* int(target_size * pct / 100)
IntOfShare(target, pct) == (target * pct) \div 100

\* DataFrame.sample(n=n, random_state=42) of the rows at positions S: some n of
\* them
SamplesOf(S, n) == {T \in SUBSET S : Cardinality(T) = n}

\* the positions sampled so far, and their keys (pd.concat(samples)['bbl'])
Sampled(smp) == UNION {smp[k].rows : k \in DOMAIN smp}
SampledBbls(d, smp) == {d[n].bbl : n \in Sampled(smp)}

\* the k-th smallest assesstot of the frame, k counted from 0
KthSmallest(d, k) ==
  CHOOSE v \in {d[n].assesstot : n \in DOMAIN d} :
    /\ Cardinality({n \in DOMAIN d : d[n].assesstot <= v}) >= k + 1
    /\ Cardinality({n \in DOMAIN d : d[n].assesstot < v}) <= k

\* x > df['assesstot'].quantile(0.9), the quantile interpolated linearly
\* between the values at positions lo and lo + 1 of the sorted column
AboveQuantile90(d, x) ==
  LET h10 == 9 * (Len(d) - 1)
      lo == h10 \div 10
      vlo == KthSmallest(d, lo)
      vhi == IF lo + 1 < Len(d) THEN KthSmallest(d, lo + 1) ELSE vlo
  IN 10 * x > 10 * vlo + (h10 - 10 * lo) * (vhi - vlo)

\* a state of the sampler: the samples appended so far and remaining_target
SamplerStart(target) == [samples |-> <<>>, remaining_target |-> target]

\* the sampler state after appending a sample of n of the candidates to it
AppendSample(st, quota, candidates, n) ==
  {[samples |-> Append(st.samples, [quota |-> quota, rows |-> T]),
    remaining_target |-> st.remaining_target - n] : T \in SamplesOf(candidates, n)}

\* 1. Manhattan
QuotaManhattan(d, target, st) ==
  LET manhattan == {n \in DOMAIN d : d[n].borough = "MN"}
  IN IF manhattan = {} THEN {st}
     ELSE AppendSample(st, "manhattan", manhattan,
                       Min(Cardinality(manhattan), IntOfShare(target, MANHATTAN_PCT)))

\* 2. vacant lots; the rows of Manhattan are removed after sample_size is set
QuotaVacant(d, target, st) ==
  LET all == {n \in DOMAIN d : StartsWithV(d[n].bldgclass)}
      vacant_lots == {n \in all : d[n].borough # "MN"}
      sample_size == Min(Cardinality(all), IntOfShare(target, VACANT_PCT))
  IN IF all = {} \/ st.remaining_target <= 0 \/ vacant_lots = {} THEN {st}
     ELSE AppendSample(st, "vacant", vacant_lots,
                       Min(sample_size, Cardinality(vacant_lots)))

\* 3. high-value properties, without the keys sampled already
QuotaHighValue(d, target, st) ==
  LET all == {n \in DOMAIN d : AboveQuantile90(d, d[n].assesstot)}
      high_value == {n \in all : d[n].bbl \notin SampledBbls(d, st.samples)}
      sample_size == Min(Cardinality(all), IntOfShare(target, HIGH_VALUE_PCT))
  IN IF all = {} \/ st.remaining_target <= 0 \/ high_value = {} THEN {st}
     ELSE AppendSample(st, "high_value", high_value,
                       Min(sample_size, Cardinality(high_value)))

\* 4. development potential, without the keys sampled already
QuotaDevPotential(d, target, st) ==
  LET all == {n \in DOMAIN d : d[n].residfar > 0 /\ d[n].builtfar < d[n].residfar}
      dev_potential == {n \in all : d[n].bbl \notin SampledBbls(d, st.samples)}
      sample_size == Min(Cardinality(all), IntOfShare(target, DEV_POTENTIAL_PCT))
  IN IF all = {} \/ st.remaining_target <= 0 \/ dev_potential = {} THEN {st}
     ELSE AppendSample(st, "dev_potential", dev_potential,
                       Min(sample_size, Cardinality(dev_potential)))

\* variant: the rows of the borough, sampled before or not
BoroughDfUnfiltered(d, st, borough) ==
  {n \in DOMAIN d : d[n].borough = borough}

\* the rows of one fallback borough that step 5 can draw from
BoroughDf(d, st, borough) ==
  {n \in DOMAIN d : d[n].bbl \notin SampledBbls(d, st.samples)
                     /\ d[n].borough = borough}

\* 5. the loop over the fallback boroughs from position k on; every borough
\* draws from remaining_df and remaining_target as they were before the loop
RECURSIVE BoroughSamples(_, _, _)
BoroughSamples(d, st, k) ==
  IF k > Len(FallbackBoroughs) THEN {<<>>}
  ELSE LET borough_df == BoroughDf(d, st, FallbackBoroughs[k])
           sample_size == Min(Cardinality(borough_df),
                              st.remaining_target \div Len(FallbackBoroughs))
           rest == BoroughSamples(d, st, k + 1)
       IN IF sample_size > 0
            THEN {<<[quota |-> FallbackBoroughs[k], rows |-> T]>> \o r :
                    T \in SamplesOf(borough_df, sample_size), r \in rest}
            ELSE rest

QuotaFallback(d, st) ==
  IF st.remaining_target <= 0 THEN {st}
  ELSE {[st EXCEPT !.samples = st.samples \o b] : b \in BoroughSamples(d, st, 1)}

\* pd.concat(samples).drop_duplicates(subset=['bbl']): of the rows of one key
\* the first in the order of the concatenation stays, which is a row of the
\* earliest sample that holds the key
DropDuplicates(d, smp) ==
  LET rows == Sampled(smp)
      First(b) == CHOOSE k \in DOMAIN smp :
                    /\ \E n \in smp[k].rows : d[n].bbl = b
                    /\ \A j \in 1..(k - 1) : \A n \in smp[j].rows : d[n].bbl # b
  IN {T \in SUBSET rows :
        /\ \A n \in T : n \in smp[First(d[n].bbl)].rows
        /\ \A b \in {d[n].bbl : n \in rows} :
             Cardinality({n \in T : d[n].bbl = b}) = 1}

\* variant: the fallback returns the whole frame
FinalSamplesWholeFrame(d, target, smp) ==
  IF smp # <<>> THEN DropDuplicates(d, smp)
  ELSE {DOMAIN d}

\* the end of create_strategic_sample: the combined sample, or a random sample
\* of the frame when no sample was appended
FinalSamples(d, target, smp) ==
  IF smp # <<>> THEN DropDuplicates(d, smp)
  ELSE SamplesOf(DOMAIN d, Min(target, Len(d)))

InitSample ==
  /\ loader = "sample"
  /\ pc = "main"
  /\ mode = "full"
  /\ specific_borough = <<>>
  /\ csv_exists = TRUE /\ truncate = FALSE /\ has_bbl = TRUE
  /\ chunk_size = 1
  /\ InitCommon
  /\ table = EmptyTable /\ settings = <<>>
  /\ df \in SampleFrames
  /\ target_size \in 0..MaxTarget
  /\ record = <<>>

\* create_strategic_sample(df, target_size)
CreateStrategicSample ==
  /\ loader = "sample" /\ pc = "main"
  /\ \E s1 \in QuotaManhattan(df, target_size, SamplerStart(target_size)) :
     \E s2 \in QuotaVacant(df, target_size, s1) :
     \E s3 \in QuotaHighValue(df, target_size, s2) :
     \E s4 \in QuotaDevPotential(df, target_size, s3) :
     \E s5 \in QuotaFallback(df, s4) :
       /\ samples' = s5.samples
       /\ remaining_target' = s4.remaining_target
       /\ final_sample' \in FinalSamples(df, target_size, s5.samples)
  /\ pc' = "sampled"
  /\ UNCHANGED <<loader, mode, specific_borough, clock, settings0, csv_exists,
                 truncate, has_bbl, df, chunk_size, batch, batch2, applied,
          onceTable,
                 target_size, record, built_status, transformed,
                 table, settings, apiVars, total_properties,
                 pagesLeft, i, truncCount, upserted, lastInsert, endVars,
                 keyDefaulted, submitted>>

NextSample == CreateStrategicSample

SpecSample == InitSample /\ [][NextSample]_vars

\* ------------------------------------------------------------------------
\* The transforms on their own: one raw record handed to transform_record, to
\* transform_dataframe, or to prepare_dataframe
\* ------------------------------------------------------------------------

\* cells of the numeric columns: absent, empty, not a number, numbers
YearCells == {NoField, "", "abc", "0", "1925"}
AreaCells == {NoField, "", "abc", "0", "5000"}

RawRecords ==
  [bbl : {"1", "abc"}, borough : {"1", NoField}, block : {"1", "abc", NoField},
   bldgclass : BldgClasses \cup {NoField},
   yearbuilt : YearCells, bldgarea : AreaCells, landuse : {NoField, "11", "01"}]

\* the record as a row of the CSV file
CsvRowOf(r) ==
  [r EXCEPT !.borough = [type |-> IF r.borough = NoField THEN "nan" ELSE "int",
                         text |-> r.borough]]

\* pd.to_numeric(errors='coerce').astype('Int64') as prepare_dataframe applies it
\* to block and lot, then the NaN -> None replacement of upsert_chunks: no
\* default is filled in, <<>> is the null
to_numeric_Int64(cell) == IF Parsable(cell) THEN <<ParseInt(cell)>> ELSE <<>>

\* str(x).upper().startswith('V')
UpperStartsWithV(x) == x \in {"V0", "V1", "v1"}

\* prepare_dataframe: the is_vacant column of a row
is_vacant(row) ==
  \/ (row.bldgclass # NoField /\ UpperStartsWithV(row.bldgclass))
  \/ row.landuse = "11"

\* prepare_dataframe and upsert_chunks on one row: bbl and borough are passed as
\* read (NoField is the null), block (and lot, converted by the same loop) is
\* coerced without a default
prepare_dataframe(row) ==
  [bbl |-> row.bbl, borough |-> row.borough,
   block |-> to_numeric_Int64(row.block),
   bldgclass |-> row.bldgclass, landuse |-> row.landuse,
   is_vacant |-> is_vacant(row)]

InitNormalize ==
  /\ loader = "normalize"
  /\ pc = "main"
  /\ mode = "full"
  /\ specific_borough = <<>>
  /\ csv_exists = TRUE /\ truncate = FALSE /\ has_bbl = TRUE
  /\ df = <<>> /\ chunk_size = 1
  /\ target_size = 0
  /\ InitCommon
  /\ table = EmptyTable /\ settings = <<>>
  /\ record \in RawRecords

\* what the transforms leave alone
NormalizeFrame ==
  UNCHANGED <<loader, mode, specific_borough, clock, settings0, csv_exists,
              truncate, has_bbl, df, chunk_size, batch, batch2, applied,
          onceTable,
              target_size, samples, remaining_target, final_sample, record,
              table, settings, apiVars, total_properties, pagesLeft, i,
              truncCount, upserted, lastInsert, endVars, keyDefaulted, submitted>>

\* pluto_loader.py: transform_record(record)
TransformRecord ==
  /\ loader = "normalize" /\ pc = "main"
  /\ built_status' = get_built_status(record)
  /\ transformed' = transform_record(record)
  /\ pc' = "api"
  /\ NormalizeFrame

\* pluto_local_loader.py: transform_dataframe on the row
TransformDataframe ==
  /\ loader = "normalize" /\ pc = "main"
  /\ LET row == TransformRow(CsvRowOf(record), 1, TRUE)
     IN /\ built_status' = <<row.built_status>>
        /\ transformed' = <<row>>
  /\ pc' = "csv"
  /\ NormalizeFrame

\* pluto_supabase_loader_added_features.py, pluto_sample_loader.py:
\* prepare_dataframe adds is_vacant to the row
PrepareDataframe ==
  /\ loader = "normalize" /\ pc = "main"
  /\ built_status' = <<>>
  /\ transformed' = <<prepare_dataframe(record)>>
  /\ pc' = "prepared"
  /\ NormalizeFrame

NextNormalize == TransformRecord \/ TransformDataframe \/ PrepareDataframe

SpecNormalize == InitNormalize /\ [][NextNormalize]_vars

\* ------------------------------------------------------------------------
\* KeyboardInterrupt in pluto_loader.py and pluto_local_loader.py
\* ------------------------------------------------------------------------

\* the normalized records of the batch in progress: of the borough requested
\* (API), of any borough (file)
InterruptedRows ==
  IF loader = "api"
    THEN [bbl : Keys, borough : {BOROUGH_CODES[where_clause.borough]}]
    ELSE [bbl : Keys, borough : {"Manhattan", "MN"}]

\* KeyboardInterrupt before the watermark write.  It is not an Exception, so
\* no except clause of the load functions catches it: it reaches main, which
\* prints and closes the connection.  values are the rows of the batch in
\* progress that execute_values had sent when the interrupt came (none when it
\* came outside the statement).
Interrupt ==
  /\ loader \in {"api", "csv"}
  /\ pc \in {"main", "process_borough", "loop", "finalize"}
  /\ \E values \in (IF pc = "loop" THEN SeqUpTo(InterruptedRows, BATCH_SIZE)
                     ELSE {<<>>}) :
       /\ table' = close(table, execute_values(table, values))
       /\ lastInsert' = IF values # <<>> THEN "interrupted" ELSE lastInsert
  /\ pc' = "interrupted"
  /\ UNCHANGED <<args, settings, apiVars, total_properties, pagesLeft, i,
                 truncCount, upserted, endVars, keyDefaulted, submitted>>

Init == InitApi \/ InitCsv \/ InitChunks

Next ==
  \/ FullLoadStart
  \/ IncrementalLoadStart
  \/ ProcessBoroughBegin
  \/ LoopIteration
  \/ Finalize
  \/ CsvStart
  \/ CsvChunk
  \/ CsvFinalize
  \/ UpsertChunksStart
  \/ UpsertChunk
  \/ Interrupt

Spec == Init /\ [][Next]_vars

\* the API loader on its own, run against a database just created (no rows,
\* no watermark), with the fairness its sequential code gives the while loop
\* of process_borough: an iteration that can run does run
InitApiFresh == InitApi /\ table = EmptyTable /\ settings = <<>>

NextApi ==
  \/ FullLoadStart
  \/ IncrementalLoadStart
  \/ ProcessBoroughBegin
  \/ LoopIteration
  \/ Finalize
  \/ (loader = "api" /\ Interrupt)

SpecApi == InitApiFresh /\ [][NextApi]_vars /\ WF_vars(LoopIteration)

\* ------------------------------------------------------------------------
\* Incremental runs in time: one borough whose source holds one record; clock
\* is the current time, record the source record with the last_status_date
\* of its latest change (<<>> while unchanged since the epoch), transformed
\* the record as the last fetch that returned it loaded it, applied the number
\* of runs completed.  No fetch, read or write fails.
\* ------------------------------------------------------------------------

InitIncremental ==
  /\ loader = "incremental"
  /\ pc = "main"
  /\ mode = "incremental"
  /\ specific_borough = <<"1">>
  /\ csv_exists = TRUE /\ truncate = FALSE /\ has_bbl = TRUE
  /\ df = <<>> /\ chunk_size = 1
  /\ target_size = 0
  /\ InitCommon
  /\ table = EmptyTable /\ settings = <<>>
  /\ record = <<>>

\* what the steps of the incremental runs leave alone
IncrementalFrame ==
  UNCHANGED <<loader, mode, specific_borough, settings0, csv_exists, truncate,
              has_bbl, df, chunk_size, batch, batch2, onceTable, target_size,
              samples, remaining_target, final_sample, built_status, table,
              todo, last_update, offset, lastReq, fetchFailed, delayed,
              lastRead, total_properties, pagesLeft, i, truncCount, upserted,
              lastInsert, endVars, keyDefaulted, submitted>>

\* the record changes at the source: its last_status_date becomes the time of
\* the change
SourceChange ==
  /\ loader = "incremental" /\ clock < MaxClock
  /\ clock' = clock + 1
  /\ record' = <<[bbl |-> "1", last_status_date |-> clock + 1]>>
  /\ UNCHANGED <<pc, where_clause, transformed, settings, applied>>
  /\ IncrementalFrame

\* incremental_load and process_borough up to the while loop: the watermark is
\* read and the where clause built
IncrementalRunStart ==
  /\ loader = "incremental" /\ pc = "main" /\ applied < MaxRuns
  /\ clock < MaxClock
  /\ clock' = clock + 1
  /\ where_clause' = WhereClause(specific_borough[1], TRUE, settings, TRUE)
  /\ pc' = "loop"
  /\ UNCHANGED <<record, transformed, settings, applied>>
  /\ IncrementalFrame

\* the while loop of process_borough: the source returns the record when the
\* where clause admits it, the page is short and the loop ends
IncrementalFetch ==
  /\ loader = "incremental" /\ pc = "loop"
  /\ clock < MaxClock
  /\ clock' = clock + 1
  /\ transformed' =
       IF record # <<>> /\ Admits(where_clause, record[1].last_status_date)
         THEN record ELSE transformed
  /\ pc' = "finalize"
  /\ UNCHANGED <<record, where_clause, settings, applied>>
  /\ IncrementalFrame

\* update_last_update_date at the end of incremental_load: datetime.now()
IncrementalFinalize ==
  /\ loader = "incremental" /\ pc = "finalize"
  /\ clock < MaxClock
  /\ clock' = clock + 1
  /\ settings' = update_last_update_date(settings, clock + 1, TRUE)
  /\ applied' = applied + 1
  /\ pc' = "main"
  /\ UNCHANGED <<record, transformed, where_clause>>
  /\ IncrementalFrame

NextIncremental ==
  \/ SourceChange
  \/ IncrementalRunStart
  \/ IncrementalFetch
  \/ IncrementalFinalize

SpecIncremental == InitIncremental /\ [][NextIncremental]_vars

\* ------------------------------------------------------------------------
\* From a page of the source to the batch of one upsert statement: df is the
\* page of raw records process_borough fetched (pc = "page") or the chunk
\* process_csv_direct read (pc = "chunk"), submitted the batch handed to
\* insert_properties / direct_insert_to_properties
\* ------------------------------------------------------------------------

InitBatch ==
  /\ loader = "batch"
  /\ mode = "full"
  /\ specific_borough = <<>>
  /\ csv_exists = TRUE /\ truncate = FALSE
  /\ chunk_size = 1
  /\ target_size = 0
  /\ InitCommon
  /\ table = EmptyTable /\ settings = <<>>
  /\ record = <<>>
  /\ \/ /\ pc = "page" /\ has_bbl = TRUE
        /\ df \in SeqUpTo(ApiRecords("1"), BATCH_SIZE)
     \/ /\ pc = "chunk" /\ has_bbl \in BOOLEAN
        /\ df \in SeqUpTo(CsvRows(has_bbl), CHUNK_SIZE)

\* process_borough: the records of the page that transform_record did not
\* drop are the batch; insert_properties issues no statement for an empty one
BatchOfPage ==
  /\ loader = "batch" /\ pc = "page"
  /\ submitted' = IF TransformRecords(df) = <<>> THEN <<>>
                  ELSE <<TransformRecords(df)>>
  /\ pc' = "api"
  /\ UNCHANGED <<args, table, settings, apiVars, total_properties, pagesLeft,
                 i, truncCount, upserted, lastInsert, endVars, keyDefaulted>>

\* process_csv_direct: the transformed chunk is the batch
BatchOfChunk ==
  /\ loader = "batch" /\ pc = "chunk"
  /\ submitted' = IF df = <<>> THEN <<>>
                  ELSE <<transform_dataframe(df, has_bbl)>>
  /\ pc' = "csv"
  /\ UNCHANGED <<args, table, settings, apiVars, total_properties, pagesLeft,
                 i, truncCount, upserted, lastInsert, endVars, keyDefaulted>>

NextBatch == BatchOfPage \/ BatchOfChunk

SpecBatch == InitBatch /\ [][NextBatch]_vars

\* ------------------------------------------------------------------------
\* process_borough against a source that does not change: df is the list of
\* the source's records that match the where clause, in the order in which
\* the source serves them ($limit and $offset count along that order), record
\* the raw records fetched so far, page after page
\* ------------------------------------------------------------------------

\* the source holds no record twice
NoRepeat(q) == \A a, b \in DOMAIN q : a # b => q[a] # q[b]

InitPaging ==
  /\ loader = "paging"
  /\ pc = "process_borough"
  /\ mode = "full"
  /\ specific_borough = <<"1">>
  /\ csv_exists = TRUE /\ truncate = FALSE /\ has_bbl = TRUE
  /\ chunk_size = 1
  /\ target_size = 0
  /\ InitCommon
  /\ table = EmptyTable /\ settings = <<>>
  /\ record = <<>>
  /\ df \in {q \in SeqUpTo(ApiRecords(specific_borough[1]), MaxSource) :
              NoRepeat(q)}

\* process_borough up to its while loop
PagingBegin ==
  /\ loader = "paging" /\ pc = "process_borough"
  /\ where_clause' = WhereClause(specific_borough[1], FALSE, settings, TRUE)
  /\ offset' = 0
  /\ pc' = "loop"
  /\ UNCHANGED <<args, table, settings, todo, last_update, lastReq,
                 fetchFailed, delayed, lastRead, total_properties, pagesLeft,
                 i, truncCount, upserted, lastInsert, endVars, keyDefaulted,
                 submitted>>

\* one iteration of the while loop of process_borough; the GET succeeds and
\* the source answers $limit=BATCH_SIZE&$offset=offset with that slice of df
PagingIteration ==
  /\ loader = "paging" /\ pc = "loop"
  /\ LET data == fetch_pluto_data(
                   [status |-> "ok",
                    body |-> Iloc(df, offset, offset + BATCH_SIZE)])
         res == insert_properties(table, TransformRecords(data), "ok")
     IN /\ lastReq' = <<[offset |-> offset, limit |-> BATCH_SIZE,
                         where |-> where_clause, returned |-> Len(data)]>>
        /\ record' = record \o data
        /\ keyDefaulted' = (keyDefaulted \/ DefaultedIn(data))
        /\ IF data = <<>>
             THEN /\ pc' = "done"
                  /\ delayed' = FALSE
                  /\ UNCHANGED <<table, total_properties, offset, upserted,
                                 lastInsert>>
             ELSE /\ table' = res.table
                  /\ total_properties' = total_properties + res.inserted
                  /\ upserted' = (upserted \/ res.issued)
                  /\ lastInsert' = res.outcome
                  /\ IF Len(data) < BATCH_SIZE
                       THEN /\ pc' = "done"
                            /\ delayed' = FALSE
                            /\ UNCHANGED offset
                       ELSE /\ offset' = next_offset(offset)
                            /\ delayed' = (REQUEST_DELAY > 0)
                            /\ UNCHANGED pc
  /\ UNCHANGED <<loader, mode, specific_borough, clock, settings0, csv_exists,
                 truncate, has_bbl, df, chunk_size, batch, batch2, applied,
                 onceTable, target_size, samples, remaining_target,
                 final_sample, built_status, transformed, settings, todo,
                 where_clause, last_update, fetchFailed, lastRead, pagesLeft,
                 i, truncCount, endVars, submitted>>

NextPaging == PagingBegin \/ PagingIteration

SpecPaging == InitPaging /\ [][NextPaging]_vars

\* ------------------------------------------------------------------------
\* Properties
\* ------------------------------------------------------------------------

\* the run is over
Terminal == pc \in {"done", "exited", "crashed"}

\* the run was ended by KeyboardInterrupt
Interrupted == pc = "interrupted"

\* C1: every raw record whose key is absent, empty or not a number is rejected
\* by normalization, in the API transform and in the file transform: no
\* normalized record is produced for it, no key is substituted.
C1_KeylessRecordRejected == ~keyDefaulted

\* C2: when a page fetch of a run failed, the watermark stored after the run
\* is the watermark stored before it (the run ends as failed).
C2_FetchErrorKeepsWatermark ==
  (loader = "api" /\ fetchFailed /\ Terminal) => settings = settings0

\* C3: once a page fetch failed, no further page is requested (of this or a
\* later partition) and no later batch is loaded.
C3_NoRequestAfterFetchError ==
  [][fetchFailed => lastReq' = lastReq /\ table' = table]_vars

\* C4: when the file path does not exist, the watermark stored after the run
\* of the file loader is the watermark stored before it.
C4_MissingFileKeepsWatermark ==
  (loader = "csv" /\ ~csv_exists /\ Terminal) => settings = settings0

\* C5: a full-load run issues exactly one truncate, before its first batch
\* upsert (none only while it has not started or when it was interrupted
\* before it); an incremental run issues none, whatever the partition scope.
C5_TruncateOnceBeforeFirstBatch ==
  loader = "api" =>
    /\ mode = "full" =>
         /\ truncCount <= 1
         /\ (pc # "main" /\ ~Interrupted => truncCount = 1)
         /\ (upserted => truncCount = 1)
    /\ mode = "incremental" => truncCount = 0

C5_Witness ==
  /\ loader = "api" /\ mode = "full" /\ pc = "done"
  /\ upserted /\ truncCount = 1 /\ specific_borough = <<>>

\* C6: every page request of an incremental run carries the condition
\* last_status_date > T, T being the watermark the run read at its start.
C6_EveryRequestFiltersOnStartWatermark ==
  (loader = "api" /\ mode = "incremental" /\ lastReq # <<>>) =>
    lastReq[1].where.since = <<IsoFormat(last_update)>>

\* C7: once a batch has been upserted, upserting the same batch again leaves
\* the table as the first upsert left it, with one row per key, for every
\* batch and every table the batch meets.
C7_UpsertIdempotent ==
  (loader = "upsert" /\ applied >= 1) =>
    /\ table = onceTable
    /\ \A k \in Keys : Len(table[k]) <= 1

\* the batch was upserted twice into a table that holds a row of another key;
\* the second upsert met the rows of the first
C7_Witness ==
  /\ loader = "upsert" /\ applied = 2 /\ Len(batch) = 2
  /\ batch[1].bbl # batch[2].bbl
  /\ RowCount(table) = 3

\* C8: a failed batch upsert does not abort the run, in the API loader
\* (process_borough) and in the chunked loaders (upsert_chunks,
\* process_csv_direct): while batches remain after the failed one, the loop
\* goes on to them (unless the user interrupts the run).
C8_FailedBatchDoesNotAbort ==
  ~Interrupted =>
    /\ (loader = "api" /\ lastInsert = "failed" /\ delayed) => pc = "loop"
    /\ (loader = "chunks" /\ lastInsert = "failed"
          /\ i + 1 < NumChunks(Len(df), chunk_size)) => pc = "loop"
    /\ (loader = "csv" /\ lastInsert = "failed" /\ pagesLeft > 0) => pc = "loop"

\* C9: a step in which a batch upsert fails leaves the table as it was and
\* adds nothing to the loaded total.
C9_FailedBatchRolledBack ==
  [][lastInsert' = "failed" =>
       table' = table /\ total_properties' = total_properties]_vars

C9_Witness ==
  /\ lastInsert = "failed" /\ total_properties > 0 /\ RowCount(table) > 0
  /\ loader = "api" /\ mode = "full"

\* C10: a run of the API loader that reaches the end of its source without a
\* fetch error writes the watermark exactly once, after its last batch, also
\* when a batch failed.
C10_WatermarkWrittenOnceAtEnd ==
  loader = "api" =>
    /\ (pc = "done" /\ ~fetchFailed) => wmWrites = 1
    /\ wmWrites > 0 => pc = "done"

C10_Witness ==
  /\ loader = "api" /\ pc = "done" /\ ~fetchFailed /\ wmWrites = 1
  /\ lastInsert = "failed"

\* C11: a run interrupted before its watermark write leaves the stored
\* watermark as it was before the run, writes it not at all, and leaves in the
\* table only whole committed batches: the rows of the batch in progress are
\* not applied.
C11_InterruptKeepsWatermarkAndWholeBatches ==
  [][Interrupted' =>
       /\ table' = table
       /\ settings' = settings0 /\ wmWrites' = 0]_vars

\* the interrupt came inside the statement of a batch, after an earlier batch
\* of the run had been committed
C11_Witness ==
  /\ Interrupted /\ lastInsert = "interrupted"
  /\ total_properties > 0 /\ RowCount(table) > 0

\* C12: when no watermark is stored, and when the read of the watermark fails,
\* the read yields the epoch and does not raise: the run goes on and the
\* filter of the incremental run admits every record.
C12_WatermarkReadDefaultsToEpoch ==
  (loader = "api" /\ mode = "incremental") =>
    /\ pc # "crashed"
    /\ (pc = "loop" /\ (settings = <<>> \/ lastRead = "failed")) =>
         /\ where_clause.since = <<IsoFormat(EPOCH)>>
         /\ \A ts \in Timestamps : Admits(where_clause, ts)

\* the read failed while a later watermark was stored, and pages were requested
C12_Witness ==
  /\ loader = "api" /\ mode = "incremental" /\ pc = "loop"
  /\ settings # <<>> /\ lastRead = "failed" /\ lastReq # <<>>
  /\ lastReq[1].where = where_clause

\* C13: a failed write of the watermark after the load loop is not fatal: the
\* run completes and reports the total it loaded, the rows loaded stay in the
\* table, and the stored watermark keeps the value it had before the run.
C13_WatermarkWriteFailureNotFatal ==
  [][wmFailed' =>
       /\ pc' = "done" /\ reported' = <<total_properties>>
       /\ table' = table
       /\ settings' = settings /\ settings' = settings0]_vars

\* the write failed at the end of a run that had loaded rows, with an earlier
\* watermark stored
C13_Witness ==
  /\ wmFailed /\ pc = "done" /\ total_properties > 0 /\ RowCount(table) > 0
  /\ settings0 # <<>> /\ reported = <<total_properties>>

\* C14: the sampler returns at most target_size records, for every frame and
\* target size, also when it returns the random sample of the whole frame
\* because no sample was appended.
C14_SampleSizeAtMostTarget ==
  (loader = "sample" /\ pc = "sampled") =>
    Cardinality(final_sample) <= target_size

\* no sample was appended, the frame is larger than the target, and the target
\* is what was returned
C14_Witness ==
  /\ loader = "sample" /\ pc = "sampled" /\ samples = <<>>
  /\ target_size > 0 /\ Len(df) > target_size
  /\ Cardinality(final_sample) = target_size

\* C15: no two records of the returned sample carry the same bbl, for every
\* frame, also one in which two rows carry the same bbl.
C15_SampleHasNoDuplicateKeys ==
  (loader = "sample" /\ pc = "sampled") =>
    \A m, n \in final_sample : m # n => df[m].bbl # df[n].bbl

\* round(pct / 100 * target), halves rounded to the even neighbour
RoundShare(target, pct) ==
  LET q == (target * pct) \div 100
      r == (target * pct) % 100
  IN IF r > 50 \/ (r = 50 /\ q % 2 = 1) THEN q + 1 ELSE q

\* the share of a priority quota, in hundredths
ShareOf(quota) ==
  CASE quota = "manhattan" -> MANHATTAN_PCT
    [] quota = "vacant" -> VACANT_PCT
    [] quota = "high_value" -> HIGH_VALUE_PCT
    [] quota = "dev_potential" -> DEV_POTENTIAL_PCT

PriorityQuotas == {"manhattan", "vacant", "high_value", "dev_potential"}

IsPriority(x) == x.quota \in PriorityQuotas
PrioritySamples == SelectSeq(samples, IsPriority)
DrawnBy(borough) ==
  UNION {samples[k].rows : k \in {j \in DOMAIN samples : samples[j].quota = borough}}

\* C17: after the priority quotas the remainder R = target_size minus the
\* records selected is spread evenly over the fallback boroughs BK, QN, BX,
\* SI: each draws min(its rows not selected yet, floor(R / 4)) rows, so none
\* draws more than floor(R / 4) and none draws a key selected already.
C17_FallbackSpreadsRemainderEvenly ==
  (loader = "sample" /\ pc = "sampled") =>
    /\ remaining_target = target_size - Cardinality(Sampled(PrioritySamples))
    /\ remaining_target > 0 =>
         \A k \in DOMAIN FallbackBoroughs :
           LET borough == FallbackBoroughs[k]
               available == {n \in DOMAIN df :
                               /\ df[n].borough = borough
                               /\ df[n].bbl \notin SampledBbls(df, PrioritySamples)}
           IN /\ Cardinality(DrawnBy(borough)) =
                   Min(Cardinality(available), remaining_target \div 4)
              /\ Cardinality(DrawnBy(borough)) <= remaining_target \div 4
              /\ DrawnBy(borough) \subseteq available

\* a priority quota selected a key, a fallback borough holds another row of
\* that key and more rows than floor(R / 4), and drew floor(R / 4) of them
C17_Witness ==
  /\ loader = "sample" /\ pc = "sampled" /\ remaining_target >= 4
  /\ PrioritySamples # <<>>
  /\ \E n \in DOMAIN df :
       /\ df[n].borough = "BK" /\ n \notin Sampled(samples)
       /\ df[n].bbl \in SampledBbls(df, PrioritySamples)
  /\ Cardinality(DrawnBy("BK")) = remaining_target \div 4
  /\ Cardinality({n \in DOMAIN df : df[n].borough = "BK"
                     /\ df[n].bbl \notin SampledBbls(df, PrioritySamples)})
       > remaining_target \div 4

\* a cell of a numeric column that is a number or missing or empty, and such a
\* cell that counts as 0
Clean(cell) == cell \in {NoField, ""} \/ Parsable(cell)
IsZero(cell) == cell \in {NoField, ""} \/ (Parsable(cell) /\ ParseInt(cell) = 0)

\* the rule of built_status on a raw record
VacantByRule(r) ==
  StartsWithV(r.bldgclass) \/ IsZero(r.yearbuilt) \/ IsZero(r.bldgarea)

C19_IsVacantFollowsBuiltStatus ==
  (loader = "normalize" /\ pc = "prepared") =>
    (transformed[1].is_vacant <=> (VacantByRule(record) \/ record.landuse = "11"))

\* C20: a raw record with a parsable key always yields a normalized record,
\* whatever its numeric cells hold: year built and building area are replaced
\* by 0 when missing or unparsable, the record is not dropped.
C20_NumericCellsNeverDropRecord ==
  (loader = "normalize" /\ pc \in {"api", "csv"} /\ Parsable(record.bbl)) =>
    /\ transformed # <<>>
    /\ transformed[1].yearbuilt = safe_int(record.yearbuilt)
    /\ transformed[1].bldgarea = safe_int(record.bldgarea)

\* C21: every record handed to the loader by transform_dataframe or
\* prepare_dataframe has a non-null bbl, borough and block (lot is converted
\* exactly as block): the file loader's row has a borough, the database
\* loader's row has a bbl, a borough and a block number.
C21_RequiredColumnsNeverNull ==
  /\ (loader = "normalize" /\ pc = "csv") => transformed[1].borough # NoField
  /\ (loader = "normalize" /\ pc = "prepared") =>
       /\ transformed[1].bbl # NoField
       /\ transformed[1].borough # NoField
       /\ transformed[1].block # <<>>

\* C22: whenever the run issues a request to the remote source after an
\* earlier request of the same run, the process slept REQUEST_DELAY since that
\* earlier request, also when the earlier request fetched the last page of the
\* previous borough.
C22_DelayBetweenConsecutiveRequests ==
  [][(loader = "api" /\ pc = "loop" /\ lastReq # <<>> /\ lastReq' # lastReq)
       => delayed]_vars

\* the keys of a batch
KeysOf(values) == {values[n].bbl : n \in DOMAIN values}

\* the last record of a batch that carries key k
LastWith(values, k) ==
  values[CHOOSE n \in DOMAIN values :
           /\ values[n].bbl = k
           /\ \A m \in DOMAIN values : values[m].bbl = k => m <= n]

\* C23 as stated: upserting batch then batch2 leaves the table as upserting
\* batch2 then batch does, for any two batches and any starting table, also
\* when both hold the same key with different column values.
C23_UpsertsCommute ==
  (loader = "commute" /\ applied = 2) => table = onceTable

\* C23 amended: two batches that share no key commute; a key both batches
\* hold ends with the columns of the batch upserted last.
C23_DisjointUpsertsCommute ==
  (loader = "commute" /\ applied = 2) =>
    /\ (KeysOf(batch) \cap KeysOf(batch2) = {}) => table = onceTable
    /\ \A k \in KeysOf(batch2) : table[k] = <<RowOf(LastWith(batch2, k))>>
    /\ \A k \in KeysOf(batch) : onceTable[k] = <<RowOf(LastWith(batch, k))>>

\* two batches of different keys were upserted in both orders into a table
\* that already held a different row for the key of the first
C23_Witness ==
  /\ loader = "commute" /\ applied = 2
  /\ batch = <<[bbl |-> 1, borough |-> "Manhattan"]>>
  /\ batch2 = <<[bbl |-> 2, borough |-> "Bronx"]>>
  /\ table[1] = <<[borough |-> "Manhattan"]>> /\ table[2] = <<[borough |-> "Bronx"]>>
  /\ table = onceTable

\* C24: the page loop of a borough terminates (the source is finite: it holds
\* at most MaxPages pages); without fetch errors, a request that returns an
\* empty or short page ends the loop, and a request that returns a full page
\* keeps the loop going with the offset advanced by the number of records the
\* page returned.
C24_PageLoopTerminates ==
  /\ [][(loader = "api" /\ pc = "loop" /\ lastReq' # lastReq /\ ~fetchFailed')
         => IF lastReq'[1].returned < BATCH_SIZE
              THEN pc' # "loop"
              ELSE pc' = "loop" /\ offset' = offset + lastReq'[1].returned]_vars
  /\ (loader = "api" /\ pc = "loop") ~> (pc # "loop")

\* after a full page the loop asks for the page at offset BATCH_SIZE
C24_Witness ==
  /\ loader = "api" /\ pc = "loop" /\ ~fetchFailed
  /\ lastReq # <<>> /\ lastReq[1].returned = BATCH_SIZE /\ lastReq[1].offset = 0
  /\ offset = BATCH_SIZE

\* C25: upsert_chunks submits its batches in row order: the k-th batch it
\* submits (whether the statement succeeds or raises) is the slice of df that
\* starts at row (k - 1) * chunk_size and holds between 1 and chunk_size rows,
\* so that the batches submitted are consecutive and disjoint; a call that
\* returns has submitted exactly ceil(N / chunk_size) batches (none when
\* N = 0), which together hold every row of df exactly once.
C25_ChunksAreConsecutiveSlices ==
  LET N == Len(df)
      ceil == (N + chunk_size - 1) \div chunk_size
      k == IF pc = "crashed" THEN i + 1 ELSE i
  IN loader = "chunks" =>
       /\ k <= ceil
       /\ k = 0 => submitted = <<>>
       /\ k > 0 =>
            /\ submitted # <<>>
            /\ Len(submitted[1]) \in 1..chunk_size
            /\ \A n \in 1..Len(submitted[1]) :
                 /\ (k - 1) * chunk_size + n \in 1..N
                 /\ submitted[1][n] = df[(k - 1) * chunk_size + n]
            /\ k < ceil => Len(submitted[1]) = chunk_size
       /\ pc = "done" =>
            /\ k = ceil
            /\ k > 0 => (k - 1) * chunk_size + Len(submitted[1]) = N

\* three rows in chunks of two: the second and last batch holds the third row
C25_Witness ==
  /\ loader = "chunks" /\ pc = "done"
  /\ Len(df) = 3 /\ chunk_size = 2 /\ i = 2
  /\ submitted = <<<<df[3]>>>>

\* C26: between two incremental runs (no fetch and no batch failed), every
\* change made at the source has been loaded by a run, or the filter the next
\* run will build from the stored watermark admits it; so does a change made
\* after the page was fetched and before the run wrote its watermark.
C26_IncrementalCompleteness ==
  (loader = "incremental" /\ pc = "main" /\ applied >= 1 /\ record # <<>>) =>
    \/ transformed = record
    \/ Admits(WhereClause(specific_borough[1], TRUE, settings, TRUE),
              record[1].last_status_date)

\* the keys of the raw records that are numbers are pairwise distinct
SourceKeysDistinct(rows) ==
  \A m, n \in DOMAIN rows :
    (m # n /\ Parsable(rows[m].bbl) /\ Parsable(rows[n].bbl))
      => ParseInt(rows[m].bbl) # ParseInt(rows[n].bbl)

\* C27: the batch handed to one upsert statement holds pairwise distinct
\* keys, whatever raw records the source delivered, records with a missing or
\* unparsable key included (the keys the source does give being distinct).
C27_BatchKeysDistinct ==
  (loader = "batch" /\ submitted # <<>> /\ SourceKeysDistinct(df)) =>
    ~HasDuplicateKeys(submitted[1])

\* C28: no step of a full load scoped to one borough changes a row of the
\* table that belongs to another borough: such a row is after the step what
\* it was before it.
C28_ScopedFullLoadKeepsOtherBoroughs ==
  [][(loader \in {"api", "csv"} /\ mode = "full" /\ specific_borough # <<>>)
       => \A k \in Keys :
            (table[k] # <<>>
               /\ table[k][1].borough # BOROUGH_CODES[specific_borough[1]])
              => table'[k] = table[k]]_vars

\* C29: with no fetch error and a source that does not change, the requests
\* of a borough have offsets 0, BATCH_SIZE, 2 * BATCH_SIZE, ..., all with
\* limit BATCH_SIZE and the same filter, and when the loop has ended the pages
\* fetched, one after the other, are the source's matching records, each
\* exactly once.
C29_PagesPartitionTheSource ==
  /\ [][(loader = "paging" /\ lastReq' # lastReq) =>
         /\ lastReq'[1].offset =
              (IF lastReq = <<>> THEN 0 ELSE lastReq[1].offset + BATCH_SIZE)
         /\ lastReq'[1].limit = BATCH_SIZE
         /\ lastReq # <<>> => lastReq'[1].where = lastReq[1].where]_vars
  /\ []((loader = "paging" /\ pc = "done") => record = df)

\* three records were fetched in two pages, the second at offset BATCH_SIZE
C29_Witness ==
  /\ loader = "paging" /\ pc = "done"
  /\ Len(df) = 3 /\ record = df
  /\ lastReq = <<[offset |-> BATCH_SIZE, limit |-> BATCH_SIZE,
                  where |-> where_clause, returned |-> 1]>>

\* C30: when the file does not exist the file loader issues no truncate and
\* no upsert, and no step of the run changes the table, also when truncation
\* was requested.
C30_MissingFileLeavesTableAlone ==
  /\ []((loader = "csv" /\ ~csv_exists) => (truncCount = 0 /\ ~upserted))
  /\ [][(loader = "csv" /\ ~csv_exists) => table' = table]_vars

\* a run that was to truncate ended without its file: the rows are still there
C30_Witness ==
  /\ loader = "csv" /\ ~csv_exists /\ truncate /\ pc = "done"
  /\ table = PriorTable /\ truncCount = 0 /\ ~upserted

====
